---- MODULE Spec2Model ----
(***************************************************************************)
(* Model of the tradeboard engine (src/engine): the monthly curve builder  *)
(* (main.py), the meeting interpolation engine (meeting_expected.py) and   *)
(* the distribution builder (next_meeting.py).                             *)
(*                                                                         *)
(* Numbers.  The program computes on floats and rounds what it emits to 6  *)
(* decimals.  The model is fixed-point: a rate is an integer number of     *)
(* millionths of a percentage point (Micro = 1.000000 %), so 3.90 % is     *)
(* 3900000.  A probability or a weight is in millionths too.  moveRawBps   *)
(* (4 decimals of a basis point) is in 1e-4 bp, moveAfterBps (2 decimals)  *)
(* in 1e-2 bp.  Python's round() is round-half-to-even, int() truncates    *)
(* toward zero.                                                            *)
(*                                                                         *)
(* Dates.  "YYYY-MM-DD" is <<y, m, d>> and "YYYY-MM" is <<y, m>>; string   *)
(* order on such strings is the lexicographic order of the tuples.         *)
(***************************************************************************)
EXTENDS Integers, Sequences, FiniteSets, TLC

VARIABLES
    pc,                   \* which call is running and where it stands
    monthly_curve,        \* compute_after_meeting_curve: argument
    meeting_dates,        \* compute_after_meeting_curve: argument
    current_rate,         \* argument (also of probs_cut_hold_hike)
    increment_bp,         \* argument (also of the distribution functions)
    month_to_rate,        \* local: month -> rate index
    meeting_dates_sorted, \* local: the filtered, sorted dates
    idx,                  \* local: position of the for loop
    prev_after_rate,      \* local: the running anchor
    out,                  \* local/return: the emitted MeetingPoints
    raised,               \* TRUE when the call ended in an exception
    rows,                 \* pick_one_per_month_max_volume: argument
    picked,               \* pick_one_per_month_max_volume: return value
    expected_rate,        \* compute_distribution_from_expected: argument
    min_rate,             \* compute_distribution_from_expected: argument
    max_rate,             \* compute_distribution_from_expected: argument
    dist,                 \* the distribution: level -> probability
    probs,                \* probs_cut_hold_hike: return value
    bank_code,            \* run_bank: argument
    all_rows,             \* run_bank: argument
    cfg,                  \* run_bank: what load_config returns
    now_month,            \* run_bank: the current UTC month, "YYYY-MM"
    filtered,             \* run_bank local
    curve,                \* run_bank local
    meetings_curve,       \* run_bank local
    next_meeting,         \* run_bank local
    files                 \* the output files written so far

curveVars == <<monthly_curve, meeting_dates, month_to_rate, meeting_dates_sorted,
               idx, prev_after_rate, out>>

argVars == <<current_rate, increment_bp>>

pickVars == <<rows, picked>>

distVars == <<expected_rate, min_rate, max_rate, dist, probs>>

bankVars == <<bank_code, all_rows, cfg, now_month, filtered, curve,
              meetings_curve, next_meeting, files>>

vars == <<pc, curveVars, argVars, pickVars, distVars, bankVars, raised>>

(***************************************************************************)
(* Bounds and input domains                                                *)
(***************************************************************************)
MaxDates == 2

Micro == 1000000

\* a meeting_dates entry that is not a string of at least 10 characters
BadDate == <<0, 0, 0>>

MonthsSeq == << <<2026, 11>>, <<2026, 12>>, <<2027, 1>> >>

Days == {1, 15, 28}

CurveRates == {3900000, 8000000}

CurrentRates == {4000000, 500000}

IncrementBps == {25, 0, -25}

DateDomain ==
    {<<MonthsSeq[i][1], MonthsSeq[i][2], d>> : i \in DOMAIN MonthsSeq, d \in Days}
        \cup {BadDate}

DateLists == UNION {[1..n -> DateDomain] : n \in 0..MaxDates}

\* the monthly curves the builder produces: sorted by month, one point a
\* month; g gives the rate of each month that has one
CurveOf(g) ==
    LET Has(i) == i \in DOMAIN g
        ids    == SelectSeq([i \in DOMAIN MonthsSeq |-> i], Has)
    IN  [k \in DOMAIN ids |-> [month |-> MonthsSeq[ids[k]], rate |-> g[ids[k]]]]

CurveChoices == UNION {[S -> CurveRates] : S \in SUBSET DOMAIN MonthsSeq}

\* the arguments of one call of compute_after_meeting_curve: every
\* combination of the domains above, and the worked call of a single
\* mid-January meeting against a one-point curve
WorkedCalls ==
    {[monthly_curve |-> <<[month |-> <<2026, 1>>, rate |-> 3900000]>>,
      meeting_dates |-> << <<2026, 1, 15>> >>,
      current_rate  |-> 4000000,
      increment_bp  |-> 25]}

\* calls whose current_rate is not a multiple of the increment
OffGridCalls ==
    {[monthly_curve |-> CurveOf(g),
      meeting_dates |-> << <<2026, 11, 15>>, <<2026, 12, 15>> >>,
      current_rate  |-> 4100000,
      increment_bp  |-> inc] : g \in CurveChoices, inc \in {25, 10}}

CurveCalls ==
    {[monthly_curve |-> CurveOf(g), meeting_dates |-> md,
      current_rate |-> cr, increment_bp |-> inc] :
        g \in CurveChoices, md \in DateLists,
        cr \in CurrentRates, inc \in IncrementBps}
    \cup WorkedCalls \cup OffGridCalls

MaxRows == 2

\* quote rows as load_csv_rows yields them; a symbol is <<root, month code, yy>>
RowKinds ==
    {[symbol |-> <<"ZQ", "X", 26>>, name |-> "30-Day Fed Funds", month |-> <<2026, 11>>],
     [symbol |-> <<"ZQ", "Z", 26>>, name |-> "30-Day Fed Funds", month |-> <<2026, 12>>],
     [symbol |-> <<"ZQ", "F", 27>>, name |-> "30-Day Fed Funds", month |-> <<2027, 1>>],
     [symbol |-> <<"IM", "Z", 26>>, name |-> "3-Month Euribor", month |-> <<2026, 12>>]}

Prices == {96100000, 92000000}

Volumes == {0, 7}

RowDomain ==
    {[symbol |-> k.symbol, name |-> k.name, month |-> k.month,
      price |-> p, volume |-> v] : k \in RowKinds, p \in Prices, v \in Volumes}

RowLists == UNION {[1..n -> RowDomain] : n \in 0..MaxRows}

ExpectedRates == {3370000, 3250000, 3340000, 9990000, 12000000, -100000}

DistCurrentRates == {4000000, 3350000, 500000}

DistIncrementBps == {25, 3, 0, -25}

\* <<min_rate, max_rate>> with min_rate <= max_rate
RateRanges == {<<0, 10000000>>, <<-1000000, 3300000>>}

BankCodes == {"FED", "ECB", "BOE"}

PriceFormulas == {"100_minus_rate", "rate_direct", "rate_inverse"}

\* meetings.dates of a bank's configuration
ConfigDates ==
    {<<>>,
     <<<<2026, 11, 15>>, <<2026, 12, 15>>>>,
     <<<<2026, 12, 28>>, <<2026, 12, 15>>, <<2026, 11, 1>>>>}

BankConfigs ==
    [price_formula : PriceFormulas, current_rate : CurrentRates,
     increment_bp : {25}, dates : ConfigDates]

NoConfig ==
    [price_formula |-> "100_minus_rate", current_rate |-> 0, increment_bp |-> 25,
     dates |-> <<>>]

NowMonths == {<<2026, 11>>, <<2026, 12>>}

(***************************************************************************)
(* Arithmetic                                                              *)
(***************************************************************************)
Abs(x) == IF x < 0 THEN -x ELSE x

Max(a, b) == IF a >= b THEN a ELSE b

Min(a, b) == IF a <= b THEN a ELSE b

\* Python round(n / d) for d > 0: nearest integer, ties to the even one
RoundHalfEven(n, d) ==
    LET q == n \div d
        r == n % d
    IN  IF 2 * r < d THEN q
        ELSE IF 2 * r > d THEN q + 1
        ELSE IF q % 2 = 0 THEN q ELSE q + 1

\* Python int(n / d) for d > 0: truncation toward zero
TruncDiv(n, d) == IF n >= 0 THEN n \div d ELSE -((-n) \div d)

(***************************************************************************)
(* meeting_expected.py: date helpers                                       *)
(***************************************************************************)
IsLeap(y) == (y % 4 = 0 /\ y % 100 # 0) \/ y % 400 = 0

\* (DaysInMonth30 is the variant that takes every month to have 30 days)
DaysInMonth30(y, m) == 30

DaysInMonth(y, m) ==
    IF m = 2 THEN (IF IsLeap(y) THEN 29 ELSE 28)
    ELSE IF m \in {4, 6, 9, 11} THEN 30 ELSE 31

YmFromDateStr(d) == <<d[1], d[2]>>

\* variant of _next_month_ym without the December case
NextMonthYmNoRoll(ym) == <<ym[1], ym[2] + 1>>

\* lines 67-77
NextMonthYm(ym) ==
    IF ym[2] = 12 THEN <<ym[1] + 1, 1>> ELSE <<ym[1], ym[2] + 1>>

\* (RoundToIncrementDown is the variant that takes the grid level below the
\* rate instead of the nearest one)
RoundToIncrementDown(rate, inc) ==
    LET step == inc * (Micro \div 100)
    IN  IF step <= 0 THEN rate ELSE (rate \div step) * step

\* lines 57-64; the step is in millionths of a percentage point
RoundToIncrement(rate, inc) ==
    LET step == inc * (Micro \div 100)
    IN  IF step <= 0 THEN rate ELSE RoundHalfEven(rate, step) * step

DateLess(a, b) ==
    \/ a[1] < b[1]
    \/ a[1] = b[1] /\ a[2] < b[2]
    \/ a[1] = b[1] /\ a[2] = b[2] /\ a[3] < b[3]

IsDateStr(d) == d # BadDate

(***************************************************************************)
(* meeting_expected.py: compute_after_meeting_curve                        *)
(***************************************************************************)
\* lines 105-110: the last point of a month wins
MonthToRate(c) ==
    LET months == {c[i].month : i \in DOMAIN c}
        Last(ym) == CHOOSE i \in DOMAIN c :
                        /\ c[i].month = ym
                        /\ \A j \in DOMAIN c : c[j].month = ym => j <= i
    IN  [ym \in months |-> c[Last(ym)].rate]

\* lines 113-115
MeetingDatesSorted(dates) == SortSeq(SelectSeq(dates, IsDateStr), DateLess)

\* line 128: the month of d has a rate
Resolved(d, mtr) == YmFromDateStr(d) \in DOMAIN mtr

\* variant of line 136 that counts the meeting day itself
DaysBeforeOffByOne(d) == d[3]

\* line 136
DaysBefore(d) == d[3] - 1

\* line 137

DaysAfter(d) == DaysInMonth(d[1], d[2]) - DaysBefore(d)

\* lines 143-147: the back-solved rate, rounded half-even to a millionth.
\*   (r_month - w_before * prev) / w_after
\*     = (r_month * dim - days_before * prev) / days_after
\*     = r_month + days_before * (r_month - prev) / days_after
\* and, with r_month - prev = a * days_after + b (0 <= b < days_after),
\*     = r_month + days_before * a + (days_before * b) / days_after,
\* which keeps every product small.
BackSolved(d, prev, mtr) ==
    LET r_month == mtr[YmFromDateStr(d)]
        da      == DaysAfter(d)
        a       == (r_month - prev) \div da
        b       == (r_month - prev) % da
        q       == r_month + DaysBefore(d) * a + ((DaysBefore(d) * b) \div da)
        r       == (DaysBefore(d) * b) % da
    IN  IF da <= 0 THEN r_month
        ELSE IF 2 * r < da THEN q
        ELSE IF 2 * r > da THEN q + 1
        ELSE IF q % 2 = 0 THEN q ELSE q + 1

MIN_DAYS_AFTER == 5

MAX_ABS_MOVE_BPS == 300

\* lines 150-156: percentage points times 100 are basis points
UseProxy(d, prev, mtr) ==
    \/ DaysAfter(d) < MIN_DAYS_AFTER
    \/ Abs(BackSolved(d, prev, mtr) - prev) > MAX_ABS_MOVE_BPS * (Micro \div 100)

\* lines 158-165
RAfterRaw(d, prev, mtr) ==
    LET raw     == BackSolved(d, prev, mtr)
        ym_next == NextMonthYm(YmFromDateStr(d))
    IN  IF UseProxy(d, prev, mtr)
        THEN IF ym_next \in DOMAIN mtr
             THEN mtr[ym_next]
             ELSE Max(Min(raw, prev + 3 * Micro), prev - 3 * Micro)
        ELSE raw

\* lines 167-183
MeetingPoint(d, prev, mtr, inc) ==
    LET dim         == DaysInMonth(d[1], d[2])
        r_after_raw == RAfterRaw(d, prev, mtr)
        r_after     == RoundToIncrement(r_after_raw, inc)
    IN  [meetingDate  |-> d,
         month        |-> YmFromDateStr(d),
         rateAfter    |-> r_after,
         rateRaw      |-> r_after_raw,
         moveAfterBps |-> RoundHalfEven(r_after - prev, 100),
         moveRawBps   |-> r_after_raw - prev,
         weightBefore |-> RoundHalfEven(DaysBefore(d) * Micro, dim),
         weightAfter  |-> RoundHalfEven(DaysAfter(d) * Micro, dim)]

\* line 188: the anchor of the next meeting
\* (variant first: the unsnapped raw rate carried forward)
NextAnchorRaw(d, prev, mtr, inc) == RAfterRaw(d, prev, mtr)

NextAnchor(d, prev, mtr, inc) == RoundToIncrement(RAfterRaw(d, prev, mtr), inc)

\* line 129: what an unresolved date does to the anchor
\* (variant first: the anchor falls back to current_rate)
SkipAnchorReset(prev, cur) == cur

SkipAnchor(prev, cur) == prev

\* lines 84-190 as one function: the loop folded over the sorted dates
RECURSIVE AfterMeetingLoop(_, _, _, _, _)
AfterMeetingLoop(dates, prev, cur, mtr, inc) ==
    IF dates = <<>> THEN <<>>
    ELSE LET d == Head(dates)
         IN  IF ~Resolved(d, mtr)
             THEN AfterMeetingLoop(Tail(dates), SkipAnchor(prev, cur), cur, mtr, inc)
             ELSE <<MeetingPoint(d, prev, mtr, inc)>>
                     \o AfterMeetingLoop(Tail(dates), NextAnchor(d, prev, mtr, inc),
                                         cur, mtr, inc)

ComputeAfterMeetingCurve(c, dates, cur, inc) ==
    AfterMeetingLoop(MeetingDatesSorted(dates), cur, cur, MonthToRate(c), inc)

(***************************************************************************)
(* main.py: pick_one_per_month_max_volume                                  *)
(***************************************************************************)
YmLeq(a, b) == a[1] < b[1] \/ (a[1] = b[1] /\ a[2] <= b[2])

\* sorted(keys): "YYYY-MM" strings in ascending order
RECURSIVE SortedKeys(_)
SortedKeys(S) ==
    IF S = {} THEN <<>>
    ELSE LET m == CHOOSE x \in S : \A y \in S : YmLeq(x, y)
         IN  <<m>> \o SortedKeys(S \ {m})

\* lines 178-180: one row against the best of its month so far
\* (variant first: a later row of equal volume replaces the earlier one)
TakesOverOnTie(best, r) ==
    r.month \notin DOMAIN best \/ r.volume >= best[r.month].volume

TakesOver(best, r) ==
    r.month \notin DOMAIN best \/ r.volume > best[r.month].volume

RECURSIVE BestByMonth(_, _)
BestByMonth(rs, best) ==
    IF rs = <<>> THEN best
    ELSE LET r == Head(rs)
         IN  BestByMonth(Tail(rs),
                         IF TakesOver(best, r)
                         THEN [m \in DOMAIN best \cup {r.month} |->
                                  IF m = r.month THEN r ELSE best[m]]
                         ELSE best)

\* lines 172-181
PickOnePerMonthMaxVolume(rs) ==
    LET best == BestByMonth(rs, <<>>)
        keys == SortedKeys(DOMAIN best)
    IN  [i \in DOMAIN keys |-> best[keys[i]]]

(***************************************************************************)
(* next_meeting.py                                                         *)
(***************************************************************************)
\* line 10, in millionths of a percentage point
StepFromIncrement(inc) == inc * (Micro \div 100)

\* line 14
Clamp(x, lo, hi) == Max(lo, Min(hi, x))

\* line 19: int(x / step) * step, for a step of either sign
FloorToStep(x, step) ==
    IF step > 0 THEN TruncDiv(x, step) * step
    ELSE TruncDiv(x, -step) * (-step)

\* lines 55-56 and 59-60: the two probabilities, rounded to 6 decimals.
\* (e - lo) / step in millionths is (e - lo) * 100 / increment_bp.
\* (PLowTruncated is the variant that truncates 1 - p_hi instead of rounding it)
PHigh(e, lo, inc) == RoundHalfEven((e - lo) * 100, inc)

PLowTruncated(e, lo, inc) ==
    (((StepFromIncrement(inc) - (e - lo)) * 100) \div inc)

PLow(e, lo, inc) == RoundHalfEven((StepFromIncrement(inc) - (e - lo)) * 100, inc)

\* lines 22-61
ComputeDistributionFromExpected(expected, inc, minr, maxr) ==
    LET step == StepFromIncrement(inc)
        e    == Clamp(expected, minr, maxr)
        lo   == FloorToStep(e, step)
        hi   == IF lo + step > maxr THEN lo ELSE lo + step
    IN  IF step <= 0 THEN [l \in {expected} |-> Micro]
        ELSE IF e = lo \/ hi = lo THEN [l \in {lo} |-> Micro]
        ELSE [l \in {lo, hi} |-> IF l = lo THEN PLow(e, lo, inc)
                                            ELSE PHigh(e, lo, inc)]

RECURSIVE Mass(_, _)
Mass(d, S) ==
    IF S = {} THEN 0
    ELSE LET l == CHOOSE x \in S : TRUE
         IN  d[l] + Mass(d, S \ {l})

NoProbs == [cut |-> -1, hold |-> -1, hike |-> -1]

\* lines 75-96, for a step other than 0 (line 77 divides by it)
ProbsCutHoldHike(d, current, inc) ==
    LET step == StepFromIncrement(inc)
        cur  == FloorToStep(current, step)
    IN  [cut  |-> Mass(d, {l \in DOMAIN d : l < cur}),
         hold |-> Mass(d, {l \in DOMAIN d : ~(l < cur) /\ ~(l > cur)}),
         hike |-> Mass(d, {l \in DOMAIN d : ~(l < cur) /\ l > cur})]

(***************************************************************************)
(* main.py: run_bank and what it calls                                     *)
(***************************************************************************)
\* lines 29-31
SymbolPrefixFilters(bank) == IF bank = "ECB" THEN {"IM"} ELSE {}

\* lines 20-25: the rows' names that contain one of the bank's name filters
NameFilterMatches(bank) ==
    IF bank = "FED" THEN {"30-Day Fed Funds"}
    ELSE IF bank = "BOE" THEN {"3-Month SONIA"}
    ELSE {"3-Month Euribor"}

\* lines 144-169
FilterRowsForBank(rs, bank) ==
    LET ByPrefix(r) == r.symbol[1] \in SymbolPrefixFilters(bank)
        ByName(r)   == r.name \in NameFilterMatches(bank)
    IN  IF SymbolPrefixFilters(bank) # {} THEN SelectSeq(rs, ByPrefix)
        ELSE SelectSeq(rs, ByName)

\* lines 107-110
KnownFormula(price_formula) == price_formula \in {"100_minus_rate", "rate_direct"}

\* lines 101-111, for a known formula
ImpliedRateFromPrice(price, price_formula) ==
    IF price_formula = "100_minus_rate" THEN 100 * Micro - price ELSE price

\* lines 184-198; round(rate, 4)
BuildCurve(pk, price_formula) ==
    [i \in DOMAIN pk |->
        [month  |-> pk[i].month,
         rate   |-> RoundHalfEven(ImpliedRateFromPrice(pk[i].price, price_formula),
                                  100) * 100,
         symbol |-> pk[i].symbol,
         price  |-> pk[i].price,
         volume |-> pk[i].volume,
         name   |-> pk[i].name]]

\* lines 201-206
StripPastMonths(c, cutoff) ==
    LET NotPast(p) == YmLeq(cutoff, p.month)
    IN  SelectSeq(c, NotPast)

\* lines 209-242: the first date of each month
MonthToDate(dates) ==
    LET ok == {i \in DOMAIN dates : IsDateStr(dates[i])}
        First(ym) == CHOOSE i \in ok :
                         /\ YmFromDateStr(dates[i]) = ym
                         /\ \A j \in ok : YmFromDateStr(dates[j]) = ym => i <= j
    IN  [ym \in {YmFromDateStr(dates[i]) : i \in ok} |-> dates[First(ym)]]

\* lines 245-266
FilterCurveToMeetings(c, month_to_date, current, inc) ==
    LET keys == SortedKeys(DOMAIN month_to_date)
    IN  IF DOMAIN month_to_date = {} THEN <<>>
        ELSE ComputeAfterMeetingCurve(
                 c, [i \in DOMAIN keys |-> month_to_date[keys[i]]], current, inc)

NoSummary == [empty |-> TRUE]

\* lines 326-356; the key of the distribution is f"{rate_main:.2f}", the rate
\* in hundredths of a percentage point
NextMeetingOfRunBank(mc, current) ==
    IF mc = <<>> THEN NoSummary
    ELSE LET first     == mc[1]
             rate_main == first.rateAfter
             move_raw  == first.moveRawBps
         IN  [meetingDate          |-> first.meetingDate,
              month                |-> first.month,
              currentRate          |-> current,
              expectedRateAfterRaw |-> first.rateRaw,
              expectedMoveBps      |-> RoundHalfEven(move_raw, 100),
              distribution         |-> [k \in {RoundHalfEven(rate_main, 10000)}
                                           |-> Micro],
              probabilities        |->
                  [cut  |-> IF move_raw < 0 THEN Micro ELSE 0,
                   hold |-> IF move_raw = 0 THEN Micro ELSE 0,
                   hike |-> IF move_raw > 0 THEN Micro ELSE 0],
              mainScenario         |-> [rate |-> rate_main, prob |-> Micro],
              altScenario          |-> "None"]

\* next_meeting.py lines 130-131: the defaults of min_rate and max_rate, which
\* no bank configuration overrides
DEFAULT_MIN_RATE == 0

DEFAULT_MAX_RATE == 10000000

\* next_meeting.py lines 99-109: the levels by decreasing probability; the
\* sort is stable, so the lower level comes first when the two are equal
TopTwoScenarios(d) ==
    IF DOMAIN d = {} THEN <<"None", "None">>
    ELSE LET lo == CHOOSE l \in DOMAIN d : \A x \in DOMAIN d : l <= x
             hi == CHOOSE l \in DOMAIN d : \A x \in DOMAIN d : l >= x
             l1 == IF d[hi] > d[lo] THEN hi ELSE lo
             l2 == IF l1 = lo THEN hi ELSE lo
         IN  IF lo = hi
             THEN <<[rate |-> lo, prob |-> d[lo]], "None">>
             ELSE <<[rate |-> l1, prob |-> d[l1]], [rate |-> l2, prob |-> d[l2]]>>

\* next_meeting.py lines 112-162, for a non-empty meetings_curve and an
\* increment_bp other than 0
BuildNextMeetingSummary(mc, c) ==
    LET next_pt            == mc[1]
        expected_after_raw == next_pt.rateRaw
        d   == ComputeDistributionFromExpected(expected_after_raw, c.increment_bp,
                                               DEFAULT_MIN_RATE, DEFAULT_MAX_RATE)
        top == TopTwoScenarios(d)
    IN  [meetingDate          |-> next_pt.meetingDate,
         month                |-> next_pt.month,
         currentRate          |-> c.current_rate,
         expectedRateAfterRaw |-> expected_after_raw,
         expectedMoveBps      |-> RoundHalfEven(expected_after_raw - c.current_rate, 100),
         distribution         |-> d,
         probabilities        |-> ProbsCutHoldHike(d, c.current_rate, c.increment_bp),
         mainScenario         |-> top[1],
         altScenario          |-> top[2]]

\* lines 286-288
OutputFiles(bank) ==
    {<<bank, "implied_curve">>, <<bank, "implied_meetings">>, <<bank, "next_meeting">>}

Init ==
    /\ pc = "idle"
    /\ monthly_curve = <<>>
    /\ meeting_dates = <<>>
    /\ current_rate = 0
    /\ increment_bp = 25
    /\ month_to_rate = <<>>
    /\ meeting_dates_sorted = <<>>
    /\ idx = 0
    /\ prev_after_rate = 0
    /\ out = <<>>
    /\ raised = FALSE
    /\ rows = <<>>
    /\ picked = <<>>
    /\ expected_rate = 0
    /\ min_rate = 0
    /\ max_rate = 0
    /\ dist = <<>>
    /\ probs = NoProbs
    /\ bank_code = "FED"
    /\ all_rows = <<>>
    /\ cfg = NoConfig
    /\ now_month = <<2026, 11>>
    /\ filtered = <<>>
    /\ curve = <<>>
    /\ meetings_curve = <<>>
    /\ next_meeting = NoSummary
    /\ files = {}

\* lines 84-120: the call, up to the loop
CallComputeAfterMeetingCurve ==
    /\ pc = "idle"
    /\ \E a \in CurveCalls :
          /\ monthly_curve' = a.monthly_curve
          /\ meeting_dates' = a.meeting_dates
          /\ current_rate' = a.current_rate
          /\ increment_bp' = a.increment_bp
          /\ month_to_rate' = MonthToRate(a.monthly_curve)
          /\ meeting_dates_sorted' = MeetingDatesSorted(a.meeting_dates)
          /\ prev_after_rate' = a.current_rate
    /\ out' = <<>>
    /\ idx' = 1
    /\ pc' = "loop"
    /\ UNCHANGED <<raised, pickVars, distVars, bankVars>>

\* lines 126-129: a date whose month has no rate
LoopSkip ==
    /\ pc = "loop"
    /\ idx <= Len(meeting_dates_sorted)
    /\ ~Resolved(meeting_dates_sorted[idx], month_to_rate)
    /\ prev_after_rate' = SkipAnchor(prev_after_rate, current_rate)
    /\ idx' = idx + 1
    /\ UNCHANGED <<pc, monthly_curve, meeting_dates, month_to_rate,
                   meeting_dates_sorted, out, argVars, raised, pickVars, distVars, bankVars>>

\* lines 126-188: a date whose month has a rate
LoopEmit ==
    /\ pc = "loop"
    /\ idx <= Len(meeting_dates_sorted)
    /\ Resolved(meeting_dates_sorted[idx], month_to_rate)
    /\ LET d == meeting_dates_sorted[idx]
       IN  /\ out' = Append(out, MeetingPoint(d, prev_after_rate, month_to_rate,
                                              increment_bp))
           /\ prev_after_rate' = NextAnchor(d, prev_after_rate, month_to_rate,
                                            increment_bp)
    /\ idx' = idx + 1
    /\ UNCHANGED <<pc, monthly_curve, meeting_dates, month_to_rate,
                   meeting_dates_sorted, argVars, raised, pickVars, distVars, bankVars>>

\* line 190
ReturnCurve ==
    /\ pc = "loop"
    /\ idx > Len(meeting_dates_sorted)
    /\ pc' = "curve_returned"
    /\ UNCHANGED <<curveVars, argVars, raised, pickVars, distVars, bankVars>>

\* main.py lines 172-181
CallPickOnePerMonthMaxVolume ==
    /\ pc = "idle"
    /\ \E rs \in RowLists :
          /\ rows' = rs
          /\ picked' = PickOnePerMonthMaxVolume(rs)
    /\ pc' = "pick_returned"
    /\ UNCHANGED <<curveVars, argVars, distVars, bankVars, raised>>

\* next_meeting.py lines 22-61
CallComputeDistributionFromExpected ==
    /\ pc = "idle"
    /\ \E e \in ExpectedRates, inc \in DistIncrementBps, rg \in RateRanges :
          /\ expected_rate' = e
          /\ increment_bp' = inc
          /\ min_rate' = rg[1]
          /\ max_rate' = rg[2]
          /\ dist' = ComputeDistributionFromExpected(e, inc, rg[1], rg[2])
    /\ pc' = "dist_returned"
    /\ UNCHANGED <<curveVars, current_rate, pickVars, probs, bankVars, raised>>

\* next_meeting.py lines 64-96, on the distribution just returned
CallProbsCutHoldHike ==
    /\ pc = "dist_returned"
    /\ increment_bp # 0
    /\ \E cr \in DistCurrentRates :
          /\ current_rate' = cr
          /\ probs' = ProbsCutHoldHike(dist, cr, increment_bp)
    /\ pc' = "probs_returned"
    /\ UNCHANGED <<curveVars, increment_bp, pickVars, expected_rate, min_rate,
                   max_rate, dist, bankVars, raised>>

\* next_meeting.py line 77 with a step of 0: ZeroDivisionError
CallProbsCutHoldHikeRaises ==
    /\ pc = "dist_returned"
    /\ increment_bp = 0
    /\ \E cr \in DistCurrentRates : current_rate' = cr
    /\ raised' = TRUE
    /\ pc' = "probs_raised"
    /\ UNCHANGED <<curveVars, increment_bp, pickVars, distVars, bankVars>>

\* main.py lines 274-301
RunBankLoad ==
    /\ pc = "idle"
    /\ \E bank \in BankCodes, rs \in RowLists, c \in BankConfigs, now \in NowMonths :
          /\ bank_code' = bank
          /\ all_rows' = rs
          /\ cfg' = c
          /\ now_month' = now
          /\ current_rate' = c.current_rate
          /\ increment_bp' = c.increment_bp
          /\ filtered' = FilterRowsForBank(rs, bank)
    /\ pc' = "bank_filtered"
    /\ UNCHANGED <<curveVars, pickVars, distVars, curve, meetings_curve,
                   next_meeting, files, raised>>

\* main.py lines 303-307: no row of the bank
RunBankEmpty ==
    /\ pc = "bank_filtered"
    /\ Len(filtered) = 0
    /\ curve' = <<>>
    /\ meetings_curve' = <<>>
    /\ next_meeting' = NoSummary
    /\ pc' = "bank_built"
    /\ UNCHANGED <<curveVars, argVars, pickVars, distVars, bank_code, all_rows,
                   cfg, now_month, filtered, files, raised>>

\* main.py lines 308-356
RunBankBuild ==
    /\ pc = "bank_filtered"
    /\ Len(filtered) # 0
    /\ KnownFormula(cfg.price_formula)
    /\ LET pk == PickOnePerMonthMaxVolume(filtered)
           c  == StripPastMonths(BuildCurve(pk, cfg.price_formula), now_month)
           mc == FilterCurveToMeetings(c, MonthToDate(cfg.dates), current_rate,
                                       increment_bp)
       IN  /\ curve' = c
           /\ meetings_curve' = mc
           /\ next_meeting' = NextMeetingOfRunBank(mc, current_rate)
    /\ pc' = "bank_built"
    /\ UNCHANGED <<curveVars, argVars, pickVars, distVars, bank_code, all_rows,
                   cfg, now_month, filtered, files, raised>>

\* main.py line 310 reaching line 111: ValueError out of run_bank
RunBankBuildRaises ==
    /\ pc = "bank_filtered"
    /\ Len(filtered) # 0
    /\ ~KnownFormula(cfg.price_formula)
    /\ raised' = TRUE
    /\ pc' = "bank_raised"
    /\ UNCHANGED <<curveVars, argVars, pickVars, distVars, bankVars>>

\* main.py lines 358-361
RunBankWrite ==
    /\ pc = "bank_built"
    /\ files' = files \cup OutputFiles(bank_code)
    /\ pc' = "bank_returned"
    /\ UNCHANGED <<curveVars, argVars, pickVars, distVars, bank_code, all_rows,
                   cfg, now_month, filtered, curve, meetings_curve, next_meeting,
                   raised>>

Next ==
    \/ RunBankLoad
    \/ RunBankEmpty
    \/ RunBankBuild
    \/ RunBankBuildRaises
    \/ RunBankWrite
    \/ CallPickOnePerMonthMaxVolume
    \/ CallComputeDistributionFromExpected
    \/ CallProbsCutHoldHike
    \/ CallProbsCutHoldHikeRaises
    \/ CallComputeAfterMeetingCurve
    \/ LoopSkip
    \/ LoopEmit
    \/ ReturnCurve

Spec == Init /\ [][Next]_vars

(***************************************************************************)
(* Claims about compute_after_meeting_curve                                *)
(***************************************************************************)
CurveReturned == pc = "curve_returned"

\* the anchor the k-th emitted expectation is measured against
AnchorOf(k) == IF k = 1 THEN current_rate ELSE out[k - 1].rateAfter

\* C1: the anchor chain.  The first emitted expectation's moveAfterBps and
\* moveRawBps are measured against current_rate, and those of every later
\* emitted expectation k against the rateAfter of emitted expectation k-1.
C1_AnchorChain ==
    \A k \in DOMAIN out :
        /\ out[k].moveAfterBps = RoundHalfEven(out[k].rateAfter - AnchorOf(k), 100)
        /\ out[k].moveRawBps = out[k].rateRaw - AnchorOf(k)

\* two emitted expectations, the first one snapped away from its raw rate and
\* away from current_rate, so the three candidate anchors differ
C1_Witness ==
    /\ CurveReturned
    /\ Len(out) = 2
    /\ out[1].rateAfter # out[1].rateRaw
    /\ out[1].rateAfter # current_rate
    /\ out[1].rateRaw # current_rate
    /\ out[2].moveAfterBps # 0

\* C2: a date whose month has no rate is omitted, leaves the anchor as it
\* is, and the later dates are still processed: the output is the output of
\* the same call with the unresolved dates removed from meeting_dates.
C2_SkipIsRemoval ==
    CurveReturned =>
        LET Keep(d) == ~IsDateStr(d) \/ Resolved(d, month_to_rate)
            kept    == SelectSeq(meeting_dates, Keep)
        IN  /\ out = ComputeAfterMeetingCurve(monthly_curve, kept, current_rate,
                                              increment_bp)
            /\ \A k \in DOMAIN out : Resolved(out[k].meetingDate, month_to_rate)
            /\ prev_after_rate =
                   IF out = <<>> THEN current_rate ELSE out[Len(out)].rateAfter

\* an emitted meeting that moved the anchor, followed by a skipped one
C2_Witness ==
    /\ CurveReturned
    /\ Len(meeting_dates_sorted) = 2
    /\ Resolved(meeting_dates_sorted[1], month_to_rate)
    /\ ~Resolved(meeting_dates_sorted[2], month_to_rate)
    /\ Len(out) = 1
    /\ out[1].rateAfter # current_rate

\* C3 (as claimed): a date whose month has no point is resolved from the
\* first curve month >= its month and emitted; it is skipped only when the
\* curve has no month >= its month.
C3_FallbackToLaterMonth ==
    CurveReturned =>
        \A i \in DOMAIN meeting_dates :
            LET d == meeting_dates[i]
            IN  IsDateStr(d) =>
                    ((\E ym \in DOMAIN month_to_rate : YmLeq(YmFromDateStr(d), ym))
                        <=> (\E k \in DOMAIN out : out[k].meetingDate = d))

\* C4 (as claimed): at most as many entries as meeting_dates, with strictly
\* increasing meetingDate values, also for unsorted lists and repeated dates.
C4_StrictlyIncreasing ==
    CurveReturned =>
        /\ Len(out) <= Len(meeting_dates)
        /\ \A k \in 1..(Len(out) - 1) :
               DateLess(out[k].meetingDate, out[k + 1].meetingDate)

\* the guards of the k-th emitted expectation, on its anchor
C5_GuardTriggered(k) ==
    LET d    == out[k].meetingDate
        back == BackSolved(d, AnchorOf(k), month_to_rate)
    IN  \/ DaysInMonth(d[1], d[2]) - d[3] + 1 < 5
        \/ back - AnchorOf(k) > 3 * Micro
        \/ AnchorOf(k) - back > 3 * Micro

\* the calendar month after that of the k-th emitted expectation
C5_Following(k) ==
    LET d == out[k].meetingDate
    IN  IF d[2] = 12 THEN <<d[1] + 1, 1>> ELSE <<d[1], d[2] + 1>>

\* C5: when a guard triggers (fewer than 5 days remain in the month from
\* the meeting day, or the back-solved rate is more than 300 bp away from the
\* anchor) the emitted raw rate is the following calendar month's curve rate
\* when the curve has that month (December rolls to January), and otherwise
\* the back-solved rate clamped into [anchor - 3.0, anchor + 3.0]; with no
\* guard it is the back-solved rate.
C5_StabilityGuard ==
    \A k \in DOMAIN out :
        LET d    == out[k].meetingDate
            a    == AnchorOf(k)
            back == BackSolved(d, a, month_to_rate)
            nxt  == C5_Following(k)
        IN  IF C5_GuardTriggered(k)
            THEN IF nxt \in DOMAIN month_to_rate
                 THEN out[k].rateRaw = month_to_rate[nxt]
                 ELSE /\ out[k].rateRaw >= a - 3 * Micro
                      /\ out[k].rateRaw <= a + 3 * Micro
                      /\ back > a + 3 * Micro => out[k].rateRaw = a + 3 * Micro
                      /\ back < a - 3 * Micro => out[k].rateRaw = a - 3 * Micro
                      /\ Abs(back - a) <= 3 * Micro => out[k].rateRaw = back
            ELSE out[k].rateRaw = back

\* a December meeting with 5 or more days left whose back-solved move is
\* above 300 bp, replaced by the January rate of the next year
C5_Witness ==
    /\ CurveReturned
    /\ \E k \in DOMAIN out :
          LET d == out[k].meetingDate
          IN  /\ d[2] = 12
              /\ DaysAfter(d) >= 5
              /\ C5_GuardTriggered(k)
              /\ <<d[1] + 1, 1>> \in DOMAIN month_to_rate
              /\ out[k].rateRaw = month_to_rate[<<d[1] + 1, 1>>]
              /\ out[k].rateRaw # BackSolved(d, AnchorOf(k), month_to_rate)

\* a single meeting on the 1st of a month the curve has
C6_SingleFirstOfMonth ==
    /\ CurveReturned
    /\ Len(meeting_dates) = 1
    /\ IsDateStr(meeting_dates[1])
    /\ meeting_dates[1][3] = 1
    /\ YmFromDateStr(meeting_dates[1]) \in DOMAIN month_to_rate

\* C6 (as claimed): for every current_rate and month rate, such a call emits
\* rateRaw equal to the month's curve rate.
C6_FirstOfMonthIsMonthRate ==
    C6_SingleFirstOfMonth =>
        /\ Len(out) = 1
        /\ out[1].rateRaw = month_to_rate[YmFromDateStr(meeting_dates[1])]

\* C6 (amended): it does so when the month rate is within 300 bp of
\* current_rate; when it is further away the move guard replaces it by the
\* following month's curve rate or, without one, by current_rate +/- 3.0.
C6_FirstOfMonthWithinGuard ==
    C6_SingleFirstOfMonth =>
        LET d       == meeting_dates[1]
            r_month == month_to_rate[YmFromDateStr(d)]
            nxt     == IF d[2] = 12 THEN <<d[1] + 1, 1>> ELSE <<d[1], d[2] + 1>>
        IN  /\ Len(out) = 1
            /\ out[1].weightBefore = 0
            /\ IF Abs(r_month - current_rate) <= 3 * Micro
               THEN out[1].rateRaw = r_month
               ELSE IF nxt \in DOMAIN month_to_rate
                    THEN out[1].rateRaw = month_to_rate[nxt]
                    ELSE out[1].rateRaw =
                             IF r_month > current_rate
                             THEN current_rate + 3 * Micro
                             ELSE current_rate - 3 * Micro

C6_Witness ==
    /\ C6_SingleFirstOfMonth
    /\ out[1].rateRaw = month_to_rate[YmFromDateStr(meeting_dates[1])]
    /\ out[1].rateRaw # current_rate
    /\ out[1].rateAfter # out[1].rateRaw

(***************************************************************************)
(* Claims about increment_bp, the month picker and the distribution        *)
(***************************************************************************)
\* C7 (as claimed): a zero or negative increment_bp is fatal: with it,
\* compute_after_meeting_curve and compute_distribution_from_expected end in
\* an error and return no expectations and no distribution.
C7_BadIncrementIsFatal ==
    (pc \in {"curve_returned", "dist_returned"} /\ increment_bp <= 0) =>
        /\ raised
        /\ out = <<>>
        /\ dist = <<>>

PickReturned == pc = "pick_returned"

\* the index of the row the claim says is returned for month m: the first
\* row of the input among those of month m with the greatest volume
C8_FirstMaxOf(m) ==
    CHOOSE j \in DOMAIN rows :
        /\ rows[j].month = m
        /\ \A k \in DOMAIN rows : rows[k].month = m =>
               /\ rows[k].volume <= rows[j].volume
               /\ (rows[k].volume = rows[j].volume => j <= k)

\* C8: pick_one_per_month_max_volume returns exactly one row per distinct
\* month of the input, in ascending month order; the row of a month has
\* the greatest volume among the input rows of that month, the first such
\* row of the input when several share it.  Without duplicate months the
\* output is the input sorted by month.
C8_OnePerMonthMaxVolume ==
    PickReturned =>
        /\ {picked[i].month : i \in DOMAIN picked}
               = {rows[j].month : j \in DOMAIN rows}
        /\ \A i \in 1..(Len(picked) - 1) :
               /\ YmLeq(picked[i].month, picked[i + 1].month)
               /\ picked[i].month # picked[i + 1].month
        /\ \A i \in DOMAIN picked : picked[i] = rows[C8_FirstMaxOf(picked[i].month)]
        /\ (\A j, k \in DOMAIN rows : rows[j].month = rows[k].month => j = k) =>
               /\ Len(picked) = Len(rows)
               /\ \A j \in DOMAIN rows : \E i \in DOMAIN picked : picked[i] = rows[j]

\* two different rows of one month share the greatest volume and the first
\* of them is the one returned
C8_Witness ==
    /\ PickReturned
    /\ \E j, k \in DOMAIN rows :
          /\ j < k
          /\ rows[j].month = rows[k].month
          /\ rows[j].volume = rows[k].volume
          /\ rows[j] # rows[k]
          /\ \E i \in DOMAIN picked : picked[i] = rows[j]

\* C9 (as claimed): with a price_formula other than the two supported ones
\* run_bank raises and writes none of the bank's three output files,
\* whatever the quote rows, also when no row is left after bank filtering.
C9_UnknownFormulaIsFatal ==
    ~KnownFormula(cfg.price_formula) =>
        /\ files = {}
        /\ pc \in {"bank_returned", "bank_raised"} => raised

\* C10: for a positive increment_bp and min_rate <= max_rate the distribution
\* has one grid level, or two grid levels exactly one step apart, its
\* probabilities sum to 1, and cut + hold + hike of that distribution sum to
\* 1 for any current_rate.
C10_DistributionSumsToOne ==
    (pc \in {"dist_returned", "probs_returned"} /\ increment_bp > 0) =>
        LET step == increment_bp * 10000
        IN  /\ Cardinality(DOMAIN dist) \in {1, 2}
            /\ \A l \in DOMAIN dist : l % step = 0
            /\ \A a, b \in DOMAIN dist : a < b => b - a = step
            /\ Mass(dist, DOMAIN dist) = Micro
            /\ pc = "probs_returned" => probs.cut + probs.hold + probs.hike = Micro

\* a two-level split whose probabilities are not exact in 6 decimals,
\* with mass on the current rate's level and on the level above it
C10_Witness ==
    /\ pc = "probs_returned"
    /\ increment_bp > 0
    /\ Cardinality(DOMAIN dist) = 2
    /\ ((expected_rate % (increment_bp * 10000)) * 100) % increment_bp # 0
    /\ probs.hold > 0
    /\ probs.hike > 0

\* C11 (as claimed): the next-meeting summary run_bank writes for a non-empty
\* meeting curve equals build_next_meeting_summary on the same inputs: the
\* same distribution levels and probabilities, the same cut/hold/hike, and an
\* alt scenario exactly when the distribution has two levels.
C11_SummaryIsBuilderSummary ==
    (pc \in {"bank_built", "bank_returned"} /\ meetings_curve # <<>>
        /\ increment_bp > 0) =>
        LET s == BuildNextMeetingSummary(meetings_curve, cfg)
        IN  /\ {k * 10000 : k \in DOMAIN next_meeting.distribution}
                   = DOMAIN s.distribution
            /\ \A k \in DOMAIN next_meeting.distribution :
                   next_meeting.distribution[k] = s.distribution[k * 10000]
            /\ next_meeting.probabilities = s.probabilities
            /\ (next_meeting.altScenario # "None")
                   <=> (Cardinality(DOMAIN s.distribution) = 2)

\* the worked call: current_rate 4.00, one meeting on 2026-01-15, a curve
\* rate of 3.90 for 2026-01, increment_bp 25
C12_WorkedCall ==
    /\ pc = "curve_returned"
    /\ monthly_curve = <<[month |-> <<2026, 1>>, rate |-> 3900000]>>
    /\ meeting_dates = << <<2026, 1, 15>> >>
    /\ current_rate = 4000000
    /\ increment_bp = 25

\* C12 (as claimed): the worked call emits weightBefore = 14/31, a raw rate
\* of approximately 3.797 and a snapped rateAfter of 3.75.
C12_WorkedRawIs3797 ==
    C12_WorkedCall =>
        /\ Len(out) = 1
        /\ out[1].weightBefore = RoundHalfEven(14 * Micro, 31)
        /\ Abs(out[1].rateRaw - 3797000) <= 5000
        /\ out[1].rateAfter = 3750000

\* C12 (amended): the worked call emits weightBefore = 14/31 (0.451613), a
\* raw rate of (3.90 - (14/31) * 4.00) / (17/31) = 64.9 / 17, which is
\* 3.817647 (approximately 3.818), and a snapped rateAfter of 3.75.
C12_WorkedRawIs3818 ==
    C12_WorkedCall =>
        /\ Len(out) = 1
        /\ out[1].weightBefore = 451613
        /\ out[1].weightAfter = 548387
        /\ out[1].rateRaw = 3817647
        /\ out[1].rateRaw = RoundHalfEven(3900000 * 31 - 4000000 * 14, 17)
        /\ out[1].rateAfter = 3750000
        /\ out[1].moveAfterBps = -2500

C12_Witness ==
    /\ C12_WorkedCall
    /\ Len(out) = 1
    /\ out[1].meetingDate = <<2026, 1, 15>>
    /\ out[1].rateAfter # out[1].rateRaw

\* month index of a month: year * 12 + month - 1
C13_MonthIndex(ym) == ym[1] * 12 + ym[2] - 1

\* C13 (as claimed): the monthly curve of the pipeline is densified: every
\* real point (a picked quote of a month not in the past) is in it with its
\* rate unchanged, every month between two consecutive real points has a
\* point of its own, and the rate of such a point lies between the rates of
\* the two real points around it.
C13_CurveIsDensified ==
    (pc \in {"bank_built", "bank_returned"} /\ Len(filtered) # 0) =>
        LET real == StripPastMonths(
                        BuildCurve(PickOnePerMonthMaxVolume(filtered),
                                   cfg.price_formula), now_month)
        IN  /\ \A i \in DOMAIN real : \E k \in DOMAIN curve :
                   /\ curve[k].month = real[i].month
                   /\ curve[k].rate = real[i].rate
            /\ \A i \in 1..(Len(real) - 1) :
                   \A x \in (C13_MonthIndex(real[i].month) + 1)
                                ..(C13_MonthIndex(real[i + 1].month) - 1) :
                       \E k \in DOMAIN curve :
                           /\ C13_MonthIndex(curve[k].month) = x
                           /\ curve[k].rate >= Min(real[i].rate, real[i + 1].rate)
                           /\ curve[k].rate <= Max(real[i].rate, real[i + 1].rate)

\* C14 (as claimed): for a positive increment_bp the lowest level lo of the
\* distribution is the greatest grid multiple not above the clamped expected
\* rate, lo <= expected < lo + step, also for a negative expected rate, and
\* every probability lies in [0, 1].
C14_LoIsFloor ==
    (pc \in {"dist_returned", "probs_returned"} /\ increment_bp > 0
        /\ min_rate <= max_rate) =>
        LET step == StepFromIncrement(increment_bp)
            e    == Clamp(expected_rate, min_rate, max_rate)
            lo   == CHOOSE l \in DOMAIN dist : \A x \in DOMAIN dist : l <= x
        IN  /\ lo % step = 0
            /\ lo <= e
            /\ e < lo + step
            /\ \A l \in DOMAIN dist : dist[l] >= 0 /\ dist[l] <= Micro

\* C15: for a positive increment_bp every emitted rateAfter is a multiple of
\* the step and a nearest one to the emitted raw rate (at most half a step
\* away), and once a meeting has been emitted the running anchor is that
\* rateAfter, on the grid, whether or not current_rate is.
C15_SnappedToGrid ==
    (pc \in {"loop", "curve_returned"} /\ increment_bp > 0) =>
        LET step == increment_bp * (Micro \div 100)
        IN  /\ \A k \in DOMAIN out :
                   /\ out[k].rateAfter % step = 0
                   /\ 2 * Abs(out[k].rateAfter - out[k].rateRaw) <= step
            /\ (pc = "loop" /\ Len(out) >= 1) =>
                   /\ prev_after_rate = out[Len(out)].rateAfter
                   /\ prev_after_rate % step = 0

\* a current_rate off the grid, a first meeting whose raw rate is off the
\* grid, and a second meeting anchored on the snapped rate
C15_Witness ==
    /\ pc = "curve_returned"
    /\ increment_bp > 0
    /\ current_rate % (increment_bp * (Micro \div 100)) # 0
    /\ Len(out) = 2
    /\ out[1].rateRaw % (increment_bp * (Micro \div 100)) # 0
    /\ out[2].moveAfterBps * 100 = out[2].rateAfter - out[1].rateAfter

====
